---- MODULE Spec2Model ----
(***************************************************************************)
(* Model of the gin REST trigger: the server lifecycle of                  *)
(* trigger/gin/server.go (NewServer, Start, Stop and the accept-loop       *)
(* goroutine Start spawns) and the per-request handler newGinHandler.      *)
(*                                                                         *)
(* The lifecycle is modelled at the granularity of the accesses to the     *)
(* shared field Server.running: every read and every write of it is a      *)
(* step of its own, so that the interleavings of callers of Start/Stop     *)
(* with the accept loops are the ones the Go scheduler can produce.        *)
(***************************************************************************)
EXTENDS Integers, Sequences, FiniteSets, TLC

\* ------------------------------------------------------------------ bounds

\* Total number of Start/Stop calls made on the handle in one behaviour.
MaxCalls == 3
\* In-flight requests the server can hold at once.
MaxInflight == 1
\* Times another process takes or releases the port.
MaxEnvSteps == 1

\* The tasks that call Start and Stop on the handle.
Callers == {"c1", "c2"}

\* --------------------------------------------------------------- constants

httpDefaultAddr == ":8080"
httpDefaultTlsAddr == ":8443"
httpDefaultReadTimeout == 60
httpDefaultWriteTimeout == 60

NoServer == [none |-> TRUE]

\* Error values
Nil == "nil"
ErrTLSFiles == "when TLS is enabled, both cert file and key file must be specified"
ErrKeyPair == "tls: failed to load key pair"
ErrAddrInUse == "bind: address already in use"
ErrServerClosed == "http: Server closed"
ErrDeadlineExceeded == "context deadline exceeded"

VARIABLES
    constructed,  \* NewServer has been called
    newArgs,      \* the arguments NewServer was called with
    newErr,       \* the error NewServer returned
    srv,          \* the *Server NewServer returned (NoServer: nil)
    running,      \* Server.running
    inShutdown,   \* http.Server.inShutdown: Shutdown has been called
    bound,        \* the accept loop whose listener holds the port (0: none)
    portTaken,    \* another process holds the port
    inflight,     \* requests being served (active connections)
    calls,        \* per caller: the Start/Stop call it is in, or made last
    loops,        \* the accept-loop goroutines spawned so far
    errLog,       \* loops whose error went to log.RootLogger().Error
    netListens,   \* net.Listen calls made so far
    callsMade,    \* Start/Stop calls begun so far
    envSteps,     \* port changes by other processes so far
    request,      \* the HTTP request the handler last served
    reqHeader,    \* c.Request.Header once the handler has returned
    message,      \* the contrib.Output the handler built
    invocations,  \* calls of handler.Handle made for the request
    handlerReturn,\* what handler.Handle and reply.FromMap give for it
    response,     \* what the handler wrote to c.Writer
    trace         \* the steps the handler took, in order

serverVars == <<constructed, newArgs, newErr, srv, running, inShutdown, bound,
                portTaken, inflight, calls, loops, errLog, netListens,
                callsMade, envSteps>>

handlerVars == <<request, handlerReturn, reqHeader, message, invocations,
                 response, trace>>

vars == <<serverVars, handlerVars>>

\* ------------------------------------------------------------ construction

\* The certificate and key files a caller may name.
CertFiles == {"", "cert.pem", "missing.pem"}
KeyFiles == {"", "key.pem", "missing.key"}

\* tls.LoadX509KeyPair: only the existing, matching pair loads.
LoadX509KeyPair(certFile, keyFile) ==
    IF certFile = "cert.pem" /\ keyFile = "key.pem" THEN Nil ELSE ErrKeyPair

\* Option values: TLS(certFile, keyFile) and Timeouts(read, write).
TLSOption(certFile, keyFile) ==
    [opt |-> "TLS", certFile |-> certFile, keyFile |-> keyFile, rd |-> 0, wr |-> 0]

TimeoutsOption(readTimeout, writeTimeout) ==
    [opt |-> "Timeouts", certFile |-> "", keyFile |-> "",
     rd |-> readTimeout, wr |-> writeTimeout]

\* Applying the option TLS(certFile, keyFile) to a server.
TLS(s, o) ==
    [s EXCEPT !.tlsEnabled = TRUE,
              !.certFile = o.certFile,
              !.keyFile = o.keyFile,
              !.Addr = IF s.Addr = "" THEN httpDefaultTlsAddr ELSE s.Addr]

\* Applying the option Timeouts(readTimeout, writeTimeout) to a server.
Timeouts(s, o) ==
    [s EXCEPT !.ReadTimeout = o.rd, !.WriteTimeout = o.wr]

ApplyOption(s, o) ==
    IF o.opt = "TLS" THEN TLS(s, o) ELSE Timeouts(s, o)

RECURSIVE ApplyOptions(_, _)
ApplyOptions(s, opts) ==
    IF opts = <<>> THEN s
    ELSE ApplyOptions(ApplyOption(s, Head(opts)), Tail(opts))

\* A validateInit that checks the paths are given but never loads the pair.
validateInitPathsOnly(s) ==
    IF s.tlsEnabled /\ (s.certFile = "" \/ s.keyFile = "")
    THEN ErrTLSFiles
    ELSE Nil

validateInit(s) ==
    IF s.tlsEnabled
    THEN IF s.certFile = "" \/ s.keyFile = ""
         THEN ErrTLSFiles
         ELSE LoadX509KeyPair(s.certFile, s.keyFile)
    ELSE Nil

\* The server NewServer builds before it validates it.
BuildServer(addr, opts) ==
    ApplyOptions([Addr |-> IF addr = "" THEN httpDefaultAddr ELSE addr,
                  ReadTimeout |-> httpDefaultReadTimeout,
                  WriteTimeout |-> httpDefaultWriteTimeout,
                  tlsEnabled |-> FALSE,
                  certFile |-> "",
                  keyFile |-> ""], opts)

Addrs == {"", ":9090"}

OptionLists ==
    {<<>>}
    \cup {<<TLSOption(c, k)>> : c \in CertFiles, k \in KeyFiles}
    \cup {<<TimeoutsOption(30, 30)>>}

\* ------------------------------------------------------------ JSON decoding

\* Longest request body, in bytes.
MaxBodyLen == 3

\* The bytes of a JSON body: space, brackets, comma, a digit, and a byte that
\* is never part of a JSON text.
JsonChars == {" ", "[", "]", ",", "1", "x"}

SeqsUpTo(S, n) == UNION {[1..k -> S] : k \in 0..n}

EOF == "EOF"
ErrUnexpectedEOF == "unexpected EOF"
ErrSyntax == "invalid character"
ErrRead == "read error"
ErrInvalidEscape == "invalid URL escape"
ErrHandler == "handler failed"
ErrMapping == "unable to map results"

RECURSIVE SkipSpace(_)
SkipSpace(s) ==
    IF s # <<>> /\ Head(s) = " " THEN SkipSpace(Tail(s)) ELSE s

RECURSIVE DigitRun(_)
DigitRun(s) ==
    IF s # <<>> /\ Head(s) = "1" THEN 1 + DigitRun(Tail(s)) ELSE 0

ParseFailure(err) == [err |-> err, text |-> <<>>, rest |-> <<>>]

\* The JSON value at the head of s (which starts with no space): err, the
\* value in its compact encoding, and the bytes after the value.
RECURSIVE ParseValue(_)
RECURSIVE ParseElems(_, _)
ParseValue(s) ==
    IF s = <<>> THEN ParseFailure(ErrUnexpectedEOF)
    ELSE IF Head(s) = "1"
    THEN [err |-> Nil, text |-> SubSeq(s, 1, DigitRun(s)),
          rest |-> SubSeq(s, DigitRun(s) + 1, Len(s))]
    ELSE IF Head(s) = "["
    THEN LET t == SkipSpace(Tail(s))
         IN IF t # <<>> /\ Head(t) = "]"
            THEN [err |-> Nil, text |-> <<"[", "]">>, rest |-> Tail(t)]
            ELSE ParseElems(t, <<"[">>)
    ELSE ParseFailure(ErrSyntax)

ParseElems(s, acc) ==
    LET v == ParseValue(s)
        t == SkipSpace(v.rest)
    IN IF v.err # Nil THEN v
       ELSE IF t = <<>> THEN ParseFailure(ErrUnexpectedEOF)
       ELSE IF Head(t) = ","
       THEN ParseElems(SkipSpace(Tail(t)), acc \o v.text \o <<",">>)
       ELSE IF Head(t) = "]"
       THEN [err |-> Nil, text |-> acc \o v.text \o <<"]">>, rest |-> Tail(t)]
       ELSE ParseFailure(ErrSyntax)

\* json.NewDecoder(body).Decode(&content): the first JSON value of the
\* stream; io.EOF when the stream ends before any value starts; what follows
\* the first value is not read.
Decode(body, readErr) ==
    IF readErr THEN ParseFailure(ErrRead)
    ELSE IF SkipSpace(body) = <<>> THEN ParseFailure(EOF)
    ELSE ParseValue(SkipSpace(body))

\* json.Unmarshal(data, &v) succeeds: the whole of data is one JSON value.
Unmarshals(data) ==
    LET v == ParseValue(SkipSpace(data))
    IN v.err = Nil /\ SkipSpace(v.rest) = <<>>

\* json.NewEncoder(w).Encode(v): the compact encoding and a newline.
Encode(text) == text \o <<"\n">>

\* ------------------------------------------------------------ form decoding

HexChars == {"1", "2", "a"}

\* url.QueryUnescape: %hh is one decoded byte, a % not followed by two hex
\* digits is an error.
RECURSIVE Unescape(_)
Unescape(s) ==
    IF s = <<>> THEN [err |-> Nil, text |-> <<>>]
    ELSE IF Head(s) = "%"
    THEN IF Len(s) >= 3 /\ s[2] \in HexChars /\ s[3] \in HexChars
         THEN LET r == Unescape(SubSeq(s, 4, Len(s)))
              IN [err |-> r.err, text |-> <<"%" \o s[2] \o s[3]>> \o r.text]
         ELSE [err |-> ErrInvalidEscape, text |-> <<>>]
    ELSE LET r == Unescape(Tail(s))
         IN [err |-> r.err, text |-> <<Head(s)>> \o r.text]

\* strings.Cut(s, sep): the bytes before and after the first sep.
RECURSIVE CutAt(_, _)
CutAt(s, sep) ==
    IF s = <<>> THEN 0
    ELSE IF Head(s) = sep THEN 1
    ELSE LET n == CutAt(Tail(s), sep) IN IF n = 0 THEN 0 ELSE n + 1

Before(s, sep) == IF CutAt(s, sep) = 0 THEN s ELSE SubSeq(s, 1, CutAt(s, sep) - 1)
After(s, sep) ==
    IF CutAt(s, sep) = 0 THEN <<>> ELSE SubSeq(s, CutAt(s, sep) + 1, Len(s))

\* url.ParseQuery: the pairs in order, each key with the list of its values;
\* the first error is kept and the pair it came from is skipped.
RECURSIVE ParseQuery(_, _, _)
ParseQuery(query, m, err) ==
    IF query = <<>> THEN [m |-> m, err |-> err]
    ELSE LET pair == Before(query, "&")
             rest == After(query, "&")
             key == Unescape(Before(pair, "="))
             value == Unescape(After(pair, "="))
         IN IF pair = <<>> THEN ParseQuery(rest, m, err)
            ELSE IF key.err # Nil
            THEN ParseQuery(rest, m, IF err = Nil THEN key.err ELSE err)
            ELSE IF value.err # Nil
            THEN ParseQuery(rest, m, IF err = Nil THEN value.err ELSE err)
            ELSE ParseQuery(rest,
                   IF key.text \in DOMAIN m
                   THEN [m EXCEPT ![key.text] = Append(@, value.text)]
                   ELSE m @@ (key.text :> <<value.text>>),
                   err)

EmptyMap == [k \in {} |-> <<>>]

\* A reduction that keeps the last value of each key.
LastValues(m) == [k \in DOMAIN m |-> m[k][Len(m[k])]]

\* Lines 146-153: each key of the form with its first value.
FirstValues(m) == [k \in DOMAIN m |-> m[k][1]]

\* ---------------------------------------------------------- request handler

StatusOK == 200
StatusBadRequest == 400

FormContentType == "application/x-www-form-urlencoded"
JsonContentType == "application/json"

Absent == [kind |-> "absent", val |-> <<>>]

\* c.Request.Header.Get(key): the first value of the header, "" without one.
Get(header, key) ==
    IF key \in DOMAIN header /\ header[key] # <<>> THEN header[key][1] ELSE ""

\* A join that keeps the first value only, as Header.Get does.
JoinFirst(values) == IF values = <<>> THEN "" ELSE values[1]

\* strings.Join(values, ",")
RECURSIVE Join(_)
Join(values) ==
    IF values = <<>> THEN ""
    ELSE IF Len(values) = 1 THEN values[1]
    ELSE values[1] \o "," \o Join(Tail(values))

\* Lines 107-125: the message with its method, path parameters, query
\* parameters and headers.
Assemble(req) ==
    [Method |-> req.method,
     PathParams |-> req.params,
     QueryParams |-> [k \in DOMAIN req.query |-> Join(req.query[k])],
     Headers |-> [k \in DOMAIN req.header |-> Join(req.header[k])],
     Content |-> Absent]

\* Lines 129-155: the form body read, parsed, and reduced to the first value
\* of each key.
DecodeForm(req) ==
    LET pq == ParseQuery(req.body, EmptyMap, Nil)
    IN IF req.readErr
       THEN [err |-> ErrRead, content |-> Absent, last |-> FALSE]
       ELSE IF pq.err # Nil
       THEN [err |-> pq.err, content |-> Absent, last |-> FALSE]
       ELSE [err |-> Nil,
             content |-> [kind |-> "form", val |-> FirstValues(pq.m)],
             last |-> FALSE]

\* A JSON case that takes every failure of the decoder for an empty body.
DecodeJsonLenient(req) ==
    LET d == Decode(req.body, req.readErr)
    IN [err |-> Nil,
        content |-> IF d.err # Nil THEN Absent
                    ELSE [kind |-> "json", val |-> d.text],
        last |-> FALSE]

\* A JSON case without the io.EOF exemption of line 161: every failure of the
\* decoder is an error of the request.
DecodeJsonStrict(req) ==
    LET d == Decode(req.body, req.readErr)
    IN IF d.err # Nil
       THEN [err |-> d.err, content |-> Absent, last |-> FALSE]
       ELSE [err |-> Nil, content |-> [kind |-> "json", val |-> d.text],
             last |-> FALSE]

\* Lines 156-168: the JSON body decoded; io.EOF leaves the content nil.
DecodeJson(req) ==
    LET d == Decode(req.body, req.readErr)
    IN IF d.err # Nil /\ d.err # EOF
       THEN [err |-> d.err, content |-> Absent, last |-> FALSE]
       ELSE [err |-> Nil,
             content |-> IF d.err = EOF THEN Absent
                         ELSE [kind |-> "json", val |-> d.text],
             last |-> FALSE]

\* A default case without the return of line 177: the raw body goes on to
\* the handler.
DecodeRawThenHandle(req) ==
    IF req.readErr
    THEN [err |-> ErrRead, content |-> Absent, last |-> FALSE]
    ELSE [err |-> Nil, content |-> [kind |-> "raw", val |-> req.body],
          last |-> FALSE]

\* Lines 169-177: the raw body kept as a string, and the handler returns.
DecodeRaw(req) ==
    IF req.readErr
    THEN [err |-> ErrRead, content |-> Absent, last |-> FALSE]
    ELSE [err |-> Nil, content |-> [kind |-> "raw", val |-> req.body],
          last |-> TRUE]

\* Lines 127-178: the content of the body by content type: err, the content,
\* and whether the handler returns right after (the default case).
DecodeBody(req) ==
    LET contentType == Get(req.header, "Content-Type")
    IN IF contentType = FormContentType THEN DecodeForm(req)
       ELSE IF contentType = JsonContentType THEN DecodeJson(req)
       ELSE DecodeRaw(req)

\* c.Writer before the handler has written to it.
NoResponse ==
    [status |-> 0, statusWrites |-> 0, header |-> [k \in {} |-> ""],
     body |-> <<>>]

\* An http.Error that answers every failure as a failure of the server, with
\* a 500 in place of the code it is given.
HttpErrorInternal(w, msg, code) ==
    [w EXCEPT !.header = ("Content-Type" :> "text/plain; charset=utf-8")
                         @@ ("X-Content-Type-Options" :> "nosniff") @@ @,
              !.status = 500,
              !.statusWrites = @ + 1,
              !.body = @ \o <<msg, "\n">>]

\* http.Error(w, msg, code)
HttpError(w, msg, code) ==
    [w EXCEPT !.header = ("Content-Type" :> "text/plain; charset=utf-8")
                         @@ ("X-Content-Type-Options" :> "nosniff") @@ @,
              !.status = code,
              !.statusWrites = @ + 1,
              !.body = @ \o <<msg, "\n">>]

\* c.Writer.Header().Set("Content-Type", value); c.Writer.WriteHeader(code);
\* then the body is written.
WriteReply(w, contentType, code, body) ==
    [w EXCEPT !.header = ("Content-Type" :> contentType) @@ @,
              !.status = code,
              !.statusWrites = @ + 1,
              !.body = @ \o body]

\* Lines 199-208: c.Request.Header.Set(key, value) for the reply's headers.
SetHeaders(header, replyHeaders) ==
    [k \in DOMAIN header \cup DOMAIN replyHeaders |->
        IF k \in DOMAIN replyHeaders THEN <<replyHeaders[k]>> ELSE header[k]]

\* A translation without the string case of lines 221-238: string data goes
\* to the JSON encoder like any other value, quoted and with a newline.
TranslateStringEncoded(w, reply) ==
    LET code == IF reply.code = 0 THEN StatusOK ELSE reply.code
    IN IF reply.data.kind = "string"
       THEN WriteReply(w, "application/json; charset=UTF-8", code,
                       Encode(<<"\"">> \o reply.data.val \o <<"\"">>))
       ELSE IF reply.data.kind = "value"
       THEN WriteReply(w, "application/json; charset=UTF-8", code,
                       Encode(reply.data.val))
       ELSE [w EXCEPT !.status = code, !.statusWrites = @ + 1]

\* A translation without the nil test of line 214: absent data goes to the
\* JSON encoder, which writes null.
TranslateAbsentEncoded(w, reply) ==
    LET code == IF reply.code = 0 THEN StatusOK ELSE reply.code
    IN IF reply.data.kind = "string"
       THEN WriteReply(w,
                       IF Unmarshals(reply.data.val)
                       THEN "application/json; charset=UTF-8"
                       ELSE "text/plain; charset=UTF-8",
                       code, reply.data.val)
       ELSE IF reply.data.kind = "value"
       THEN WriteReply(w, "application/json; charset=UTF-8", code,
                       Encode(reply.data.val))
       ELSE WriteReply(w, "application/json; charset=UTF-8", code,
                       Encode(<<"null">>))

\* Lines 210-250: the reply written to c.Writer.
Translate(w, reply) ==
    LET code == IF reply.code = 0 THEN StatusOK ELSE reply.code
    IN IF reply.data.kind = "string"
       THEN WriteReply(w,
                       IF Unmarshals(reply.data.val)
                       THEN "application/json; charset=UTF-8"
                       ELSE "text/plain; charset=UTF-8",
                       code, reply.data.val)
       ELSE IF reply.data.kind = "value"
       THEN WriteReply(w, "application/json; charset=UTF-8", code,
                       Encode(reply.data.val))
       ELSE [w EXCEPT !.status = code, !.statusWrites = @ + 1]

\* What handler.Handle and reply.FromMap give for a request: an error of the
\* handler, results that do not map to a reply, or a reply.
NoReturn ==
    [err |-> Nil, mapErr |-> Nil, code |-> 0, data |-> Absent,
     headers |-> [k \in {} |-> ""]]

ReplyCodes == {0, 201, 500}

ReplyData ==
    {Absent,
     [kind |-> "string", val |-> <<"x">>],
     [kind |-> "string", val |-> <<>>],
     [kind |-> "string", val |-> <<"[", "1", "]">>],
     [kind |-> "string", val |-> <<" ", "1">>],
     [kind |-> "value", val |-> <<"[", "1", "]">>]}

ReplyHeaders == {[k \in {} |-> ""], ("X-Reply" :> "r")}

HandlerReturns ==
    {[NoReturn EXCEPT !.err = ErrHandler], [NoReturn EXCEPT !.mapErr = ErrMapping]}
    \cup {[NoReturn EXCEPT !.code = c, !.data = d, !.headers = h] :
            c \in ReplyCodes, d \in ReplyData, h \in ReplyHeaders}

\* The first steps in the order decode, normalize: the body decoded before
\* the message is assembled.
FirstStepsDecodeFirst == <<"decode", "assemble">>

\* Lines 107-178: the first steps of every request, in the order of the
\* code: the method, path parameters, headers and query parameters are
\* assembled into the message (107-125), then the body is decoded (127-178).
FirstSteps == <<"assemble", "decode">>

\* The whole of the function newGinHandler returns, for one request: the
\* message, the handler's invocations, the response and the request's header
\* as they are when it returns.
ServeRequest(req, ret) ==
    LET out == Assemble(req)
        d == DecodeBody(req)
        decoded == [out EXCEPT !.Content = d.content]
        base == [message |-> out, invocations |-> 0, response |-> NoResponse,
                 reqHeader |-> req.header, trace |-> FirstSteps]
    IN IF d.err # Nil
       THEN [base EXCEPT !.response = HttpError(NoResponse, d.err, StatusBadRequest),
                         !.trace = @ \o <<"http.Error">>]
       ELSE IF d.last
       THEN [base EXCEPT !.message = decoded]
       ELSE IF ret.err # Nil
       THEN [base EXCEPT !.message = decoded,
                         !.invocations = 1,
                         !.response = HttpError(NoResponse, ret.err, StatusBadRequest),
                         !.trace = @ \o <<"handle", "http.Error">>]
       ELSE IF ret.mapErr # Nil
       THEN [base EXCEPT !.message = decoded,
                         !.invocations = 1,
                         !.response = HttpError(NoResponse, ret.mapErr, StatusBadRequest),
                         !.trace = @ \o <<"handle", "fromMap", "http.Error">>]
       ELSE [base EXCEPT !.message = decoded,
                         !.invocations = 1,
                         !.reqHeader = SetHeaders(req.header, ret.headers),
                         !.response = Translate(NoResponse, ret),
                         !.trace = @ \o <<"handle", "fromMap", "setHeaders",
                                         "writeReply">>]

\* The request reaches handler.Handle.
ReachesHandler(req) == DecodeBody(req).err = Nil /\ ~DecodeBody(req).last

NoRequest ==
    [method |-> "POST", params |-> [k \in {} |-> ""], query |-> EmptyMap,
     header |-> EmptyMap, body |-> <<>>, readErr |-> FALSE]

ContentTypeHeader(values) == ("Content-Type" :> values)

\* The requests served: JSON bodies of every shape, form bodies, bodies of
\* other and of no content type, bodies that fail to be read, and requests
\* with path parameters, repeated headers and repeated query keys.
JsonBodies == SeqsUpTo(JsonChars, MaxBodyLen)

FormBodies ==
    {<<>>,
     <<"a", "=", "1">>,
     <<"a", "=", "1", "&", "a", "=", "2">>,
     <<"a", "=", "2", "&", "a", "=", "1">>,
     <<"a", "=", "1", "&", "b", "=", "2">>,
     <<"a">>,
     <<"&", "a", "=", "1">>,
     <<"a", "=", "%", "2", "a">>,
     <<"a", "=", "%">>,
     <<"%", "=", "1", "&", "b", "=", "2">>}

OtherContentTypes ==
    {<<>>, <<"text/plain">>, <<"application/json; charset=utf-8">>}

Requests ==
    {[NoRequest EXCEPT !.header = ContentTypeHeader(<<JsonContentType>>),
                       !.body = b] : b \in JsonBodies}
    \cup {[NoRequest EXCEPT !.header = ContentTypeHeader(<<FormContentType>>),
                            !.body = b] : b \in FormBodies}
    \cup {[NoRequest EXCEPT !.header = IF v = <<>> THEN EmptyMap
                                       ELSE ContentTypeHeader(v),
                            !.body = b] :
            v \in OtherContentTypes, b \in SeqsUpTo({"1", "x"}, 2)}
    \cup {[NoRequest EXCEPT !.header = IF v = <<>> THEN EmptyMap
                                       ELSE ContentTypeHeader(v),
                            !.readErr = TRUE] :
            v \in OtherContentTypes \cup {<<JsonContentType>>, <<FormContentType>>}}
    \cup {[NoRequest EXCEPT !.header = ContentTypeHeader(<<JsonContentType>>)
                                       @@ ("X-Foo" :> x),
                            !.query = IF q = <<>> THEN EmptyMap ELSE ("q" :> q),
                            !.params = ("id" :> "7"),
                            !.body = <<"1">>] :
            x \in {<<"1">>, <<"1", "2">>}, q \in {<<>>, <<"1">>, <<"1", "2">>}}

\* --------------------------------------------------------- lifecycle state

NoCall ==
    [op |-> "none", pc |-> "idle", saw |-> "unread", probed |-> FALSE,
     portFree |-> FALSE, wrote |-> FALSE, spawned |-> 0, shut |-> FALSE,
     expired |-> FALSE, ret |-> "none", runAtRet |-> FALSE]

Init ==
    /\ constructed = FALSE
    /\ newArgs = [addr |-> "", opts |-> <<>>]
    /\ newErr = Nil
    /\ srv = NoServer
    /\ running = FALSE
    /\ inShutdown = FALSE
    /\ bound = 0
    /\ portTaken \in BOOLEAN
    /\ inflight = 0
    /\ calls = [c \in Callers |-> NoCall]
    /\ loops = <<>>
    /\ errLog = {}
    /\ netListens = 0
    /\ callsMade = 0
    /\ envSteps = 0
    /\ request = NoRequest
    /\ handlerReturn = NoReturn
    /\ reqHeader = NoRequest.header
    /\ message = Assemble(NoRequest)
    /\ invocations = 0
    /\ response = NoResponse
    /\ trace = <<>>

NewServer(addr, opts) ==
    /\ ~constructed
    /\ constructed' = TRUE
    /\ newArgs' = [addr |-> addr, opts |-> opts]
    /\ LET s == BuildServer(addr, opts)
           err == validateInit(s)
       IN /\ newErr' = err
          /\ srv' = IF err = Nil THEN s ELSE NoServer
    /\ UNCHANGED handlerVars
    /\ UNCHANGED <<running, inShutdown, bound, portTaken, inflight, calls,
                   loops, errLog, netListens, callsMade, envSteps>>

\* --------------------------------------------------------------- lifecycle

\* The port of srv.Addr is free: neither another process nor one of this
\* server's own listeners holds it.
PortFree == ~portTaken /\ bound = 0

\* A caller invokes Start or Stop on the handle NewServer returned.
Invoke(c, op) ==
    /\ srv # NoServer
    /\ calls[c].pc = "idle"
    /\ callsMade < MaxCalls
    /\ callsMade' = callsMade + 1
    /\ calls' = [calls EXCEPT ![c] =
                    [NoCall EXCEPT !.op = op,
                                   !.pc = IF op = "Start" THEN "start_check"
                                          ELSE "stop_check",
                                   !.ret = "pending"]]
    /\ UNCHANGED handlerVars
    /\ UNCHANGED <<constructed, newArgs, newErr, srv, running, inShutdown,
                   bound, portTaken, inflight, loops, errLog, netListens,
                   envSteps>>

\* A call returns err to its caller; runAtRet records Server.running as it is
\* at that moment (no returning step writes it).
Return(call, err) ==
    [call EXCEPT !.pc = "idle", !.ret = err, !.runAtRet = running]

\* A validateStart that never reports the port as taken.
validateStartSkipped == Nil

\* validateStart: net.Listen on the address, closed again at once.
validateStart == IF PortFree THEN Nil ELSE ErrAddrInUse

\* A Start that probes and starts whatever the flag says.
StartCheckIgnoresFlag(c) ==
    /\ calls[c].pc = "start_check"
    /\ calls' = [calls EXCEPT ![c] =
                    [@ EXCEPT !.saw = IF running THEN "running" ELSE "stopped",
                              !.pc = "start_probe"]]
    /\ UNCHANGED handlerVars
    /\ UNCHANGED <<constructed, newArgs, newErr, srv, running, inShutdown,
                   bound, portTaken, inflight, loops, errLog, netListens,
                   callsMade, envSteps>>

\* Start, line 81: if s.running { return nil }
StartCheck(c) ==
    /\ calls[c].pc = "start_check"
    /\ calls' = [calls EXCEPT ![c] =
                    IF running
                    THEN Return([@ EXCEPT !.saw = "running"], Nil)
                    ELSE [@ EXCEPT !.saw = "stopped", !.pc = "start_probe"]]
    /\ UNCHANGED handlerVars
    /\ UNCHANGED <<constructed, newArgs, newErr, srv, running, inShutdown,
                   bound, portTaken, inflight, loops, errLog, netListens,
                   callsMade, envSteps>>

\* Start, lines 85-87: if err := s.validateStart(); err != nil { return err }
StartProbe(c) ==
    /\ calls[c].pc = "start_probe"
    /\ netListens' = netListens + 1
    /\ LET err == validateStart
           probedCall == [calls[c] EXCEPT !.probed = TRUE, !.portFree = PortFree]
       IN calls' = [calls EXCEPT ![c] =
                       IF err # Nil
                       THEN Return(probedCall, err)
                       ELSE [probedCall EXCEPT !.pc = "start_set"]]
    /\ UNCHANGED handlerVars
    /\ UNCHANGED <<constructed, newArgs, newErr, srv, running, inShutdown,
                   bound, portTaken, inflight, loops, errLog, callsMade,
                   envSteps>>

\* Start, lines 94-123: s.running = true; go func() { ... }() for the
\* scheme; return nil. closed records whether Shutdown had already been
\* called on s.srv when the goroutine was started.
StartSet(c) ==
    /\ calls[c].pc = "start_set"
    /\ running' = TRUE
    /\ loops' = Append(loops, [pc |-> "listen", err |-> "none",
                                closed |-> inShutdown])
    /\ calls' = [calls EXCEPT ![c] =
                    [@ EXCEPT !.wrote = TRUE, !.spawned = Len(loops) + 1,
                              !.pc = "idle", !.ret = Nil, !.runAtRet = TRUE]]
    /\ UNCHANGED handlerVars
    /\ UNCHANGED <<constructed, newArgs, newErr, srv, inShutdown, bound,
                   portTaken, inflight, errLog, netListens, callsMade,
                   envSteps>>

\* Stop, line 129: if !s.running { return nil }
StopCheck(c) ==
    /\ calls[c].pc = "stop_check"
    /\ calls' = [calls EXCEPT ![c] =
                    IF ~running
                    THEN Return([@ EXCEPT !.saw = "stopped"], Nil)
                    ELSE [@ EXCEPT !.saw = "running", !.pc = "stop_shutdown"]]
    /\ UNCHANGED handlerVars
    /\ UNCHANGED <<constructed, newArgs, newErr, srv, running, inShutdown,
                   bound, portTaken, inflight, loops, errLog, netListens,
                   callsMade, envSteps>>

\* Stop, lines 133-136: Shutdown begins: it marks the server as shutting
\* down and closes its listeners, which releases the port.
StopShutdown(c) ==
    /\ calls[c].pc = "stop_shutdown"
    /\ inShutdown' = TRUE
    /\ bound' = 0
    /\ calls' = [calls EXCEPT ![c] = [@ EXCEPT !.shut = TRUE, !.pc = "stop_wait"]]
    /\ UNCHANGED handlerVars
    /\ UNCHANGED <<constructed, newArgs, newErr, srv, running, portTaken,
                   inflight, loops, errLog, netListens, callsMade, envSteps>>

\* A Shutdown that treats the deadline as best effort.
ShutdownResultBestEffort(expired) == Nil

\* The result of Shutdown(ctx) once it stops waiting: nil when no connection
\* is active any more, ctx.Err() when the context's deadline has passed.
ShutdownResult(expired) == IF expired THEN ErrDeadlineExceeded ELSE Nil

\* Stop, line 136: return s.srv.Shutdown(ctx). Shutdown returns as soon as no
\* connection is active; with a request still in flight it returns when the
\* 5-second deadline of ctx passes.
StopReturn(c) ==
    /\ calls[c].pc = "stop_wait"
    /\ LET expired == inflight > 0
       IN calls' = [calls EXCEPT ![c] =
                       Return([@ EXCEPT !.expired = expired],
                              ShutdownResult(expired))]
    /\ UNCHANGED handlerVars
    /\ UNCHANGED <<constructed, newArgs, newErr, srv, running, inShutdown,
                   bound, portTaken, inflight, loops, errLog, netListens,
                   callsMade, envSteps>>

\* ------------------------------------------------------------- accept loop

LoopIds == 1..Len(loops)

\* A ListenAndServe[TLS] of a server that Shutdown leaves able to listen
\* again.
ListenOutcomeRestartable == IF ~PortFree THEN ErrAddrInUse ELSE Nil

\* What ListenAndServe / ListenAndServeTLS does when first called: it
\* refuses once Shutdown has been called, else it binds the address.
ListenOutcome ==
    IF inShutdown THEN ErrServerClosed
    ELSE IF ~PortFree THEN ErrAddrInUse
    ELSE Nil

\* Lines 100-102 / 112-114: the goroutine logs and calls ListenAndServe[TLS],
\* which either returns at once with an error or binds and serves.
LoopListen(l) ==
    /\ l \in LoopIds
    /\ loops[l].pc = "listen"
    /\ LET err == ListenOutcome
       IN /\ loops' = [loops EXCEPT ![l] =
                          IF err = Nil THEN [@ EXCEPT !.pc = "serving"]
                          ELSE [@ EXCEPT !.pc = "returned", !.err = err]]
          /\ bound' = IF err = Nil THEN l ELSE bound
          /\ netListens' = IF inShutdown THEN netListens ELSE netListens + 1
    /\ UNCHANGED handlerVars
    /\ UNCHANGED <<constructed, newArgs, newErr, srv, running, inShutdown,
                   portTaken, inflight, calls, errLog, callsMade, envSteps>>

\* ListenAndServe[TLS] returns ErrServerClosed once Shutdown has closed the
\* listener the loop is accepting on.
LoopServeReturns(l) ==
    /\ l \in LoopIds
    /\ loops[l].pc = "serving"
    /\ inShutdown
    /\ loops' = [loops EXCEPT ![l] = [@ EXCEPT !.pc = "returned",
                                               !.err = ErrServerClosed]]
    /\ UNCHANGED handlerVars
    /\ UNCHANGED <<constructed, newArgs, newErr, srv, running, inShutdown,
                   bound, portTaken, inflight, calls, errLog, netListens,
                   callsMade, envSteps>>

\* An accept loop that resets the flag only after a clean shutdown.
LoopClearOnlyWhenClosed(l) ==
    /\ l \in LoopIds
    /\ loops[l].pc = "returned"
    /\ running' = IF loops[l].err = ErrServerClosed THEN FALSE ELSE running
    /\ errLog' = IF loops[l].err # ErrServerClosed THEN errLog \cup {l}
                 ELSE errLog
    /\ loops' = [loops EXCEPT ![l] = [@ EXCEPT !.pc = "done"]]
    /\ UNCHANGED handlerVars
    /\ UNCHANGED <<constructed, newArgs, newErr, srv, inShutdown, bound,
                   portTaken, inflight, calls, netListens, callsMade,
                   envSteps>>

\* Lines 103-106 / 115-118: err != nil, so s.running = false; the error is
\* logged unless it is ErrServerClosed.
LoopClearRunning(l) ==
    /\ l \in LoopIds
    /\ loops[l].pc = "returned"
    /\ running' = FALSE
    /\ errLog' = IF loops[l].err # ErrServerClosed THEN errLog \cup {l}
                 ELSE errLog
    /\ loops' = [loops EXCEPT ![l] = [@ EXCEPT !.pc = "done"]]
    /\ UNCHANGED handlerVars
    /\ UNCHANGED <<constructed, newArgs, newErr, srv, inShutdown, bound,
                   portTaken, inflight, calls, netListens, callsMade,
                   envSteps>>

\* ------------------------------------------------------------- environment

\* Another process binds the port while it is free.
PortGrabbed ==
    /\ constructed
    /\ PortFree
    /\ envSteps < MaxEnvSteps
    /\ portTaken' = TRUE
    /\ envSteps' = envSteps + 1
    /\ UNCHANGED handlerVars
    /\ UNCHANGED <<constructed, newArgs, newErr, srv, running, inShutdown,
                   bound, inflight, calls, loops, errLog, netListens,
                   callsMade>>

\* The other process releases the port.
PortReleased ==
    /\ constructed
    /\ portTaken
    /\ envSteps < MaxEnvSteps
    /\ portTaken' = FALSE
    /\ envSteps' = envSteps + 1
    /\ UNCHANGED handlerVars
    /\ UNCHANGED <<constructed, newArgs, newErr, srv, running, inShutdown,
                   bound, inflight, calls, loops, errLog, netListens,
                   callsMade>>

\* A client's request is accepted by the serving loop.
RequestArrives ==
    /\ bound # 0
    /\ inflight < MaxInflight
    /\ inflight' = inflight + 1
    /\ UNCHANGED handlerVars
    /\ UNCHANGED <<constructed, newArgs, newErr, srv, running, inShutdown,
                   bound, portTaken, calls, loops, errLog, netListens,
                   callsMade, envSteps>>

\* An in-flight request finishes.
RequestFinishes ==
    /\ inflight > 0
    /\ inflight' = inflight - 1
    /\ UNCHANGED handlerVars
    /\ UNCHANGED <<constructed, newArgs, newErr, srv, running, inShutdown,
                   bound, portTaken, calls, loops, errLog, netListens,
                   callsMade, envSteps>>

\* The steps of the callers, the accept loops and the environment on a
\* constructed handle.
LifecycleNext ==
    \/ \E c \in Callers, op \in {"Start", "Stop"} : Invoke(c, op)
    \/ \E c \in Callers : StartCheck(c)
    \/ \E c \in Callers : StartProbe(c)
    \/ \E c \in Callers : StartSet(c)
    \/ \E c \in Callers : StopCheck(c)
    \/ \E c \in Callers : StopShutdown(c)
    \/ \E c \in Callers : StopReturn(c)
    \/ \E l \in 1..MaxCalls : LoopListen(l)
    \/ \E l \in 1..MaxCalls : LoopServeReturns(l)
    \/ \E l \in 1..MaxCalls : LoopClearRunning(l)
    \/ PortGrabbed
    \/ PortReleased
    \/ RequestArrives
    \/ RequestFinishes

Next ==
    \/ \E addr \in Addrs, opts \in OptionLists : NewServer(addr, opts)
    \/ LifecycleNext

Spec == Init /\ [][Next]_vars

\* The goroutines run: the Go scheduler lets every runnable accept loop
\* take its next step.
\* The state after NewServer("", handler) has returned its handle.
ConstructedInit ==
    /\ constructed = TRUE
    /\ newArgs = [addr |-> "", opts |-> <<>>]
    /\ newErr = Nil
    /\ srv = BuildServer("", <<>>)
    /\ running = FALSE
    /\ inShutdown = FALSE
    /\ bound = 0
    /\ portTaken \in BOOLEAN
    /\ inflight = 0
    /\ calls = [c \in Callers |-> NoCall]
    /\ loops = <<>>
    /\ errLog = {}
    /\ netListens = 0
    /\ callsMade = 0
    /\ envSteps = 0
    /\ request = NoRequest
    /\ handlerReturn = NoReturn
    /\ reqHeader = NoRequest.header
    /\ message = Assemble(NoRequest)
    /\ invocations = 0
    /\ response = NoResponse
    /\ trace = <<>>

FairSpec ==
    /\ ConstructedInit
    /\ [][LifecycleNext]_vars
    /\ \A l \in 1..MaxCalls :
          /\ WF_vars(LoopListen(l))
          /\ WF_vars(LoopServeReturns(l))
          /\ WF_vars(LoopClearRunning(l))

\* One request is served by the function newGinHandler returns. Requests
\* share no state, so a behaviour serves one.
HandleRequest(req, ret) ==
    /\ trace = <<>>
    /\ ret = NoReturn \/ ReachesHandler(req)
    /\ LET r == ServeRequest(req, ret)
       IN /\ request' = req
          /\ handlerReturn' = ret
          /\ message' = r.message
          /\ invocations' = r.invocations
          /\ response' = r.response
          /\ reqHeader' = r.reqHeader
          /\ trace' = r.trace
    /\ UNCHANGED serverVars

HandlerNext ==
    \E req \in Requests, ret \in HandlerReturns \cup {NoReturn} :
        HandleRequest(req, ret)

\* Before any request the server side is at rest.
HandlerInit == Init /\ ~portTaken

HandlerSpec == HandlerInit /\ [][HandlerNext]_vars

\* ------------------------------------------------------------------ claims

StartCalls == {c \in Callers : calls[c].op = "Start"}
StopCalls == {c \in Callers : calls[c].op = "Stop"}
Returned(c) == calls[c].op # "none" /\ calls[c].pc = "idle"

\* C1: a Start that finds the handle running returns nil without probing the
\* port, writing the flag or spawning an accept loop; a Stop that finds the
\* handle not running returns nil without initiating a shutdown.
C1_NoOpOnTransitionedHandle ==
    /\ \A c \in StartCalls :
          calls[c].saw = "running" =>
              /\ Returned(c) /\ calls[c].ret = Nil
              /\ ~calls[c].probed /\ ~calls[c].wrote /\ calls[c].spawned = 0
    /\ \A c \in StopCalls :
          calls[c].saw = "stopped" =>
              /\ Returned(c) /\ calls[c].ret = Nil
              /\ ~calls[c].shut

C1_Witness ==
    /\ \E c \in StartCalls : calls[c].saw = "running" /\ Returned(c)
    /\ \E c \in StopCalls : calls[c].saw = "stopped" /\ Returned(c)

\* C2: when a Stop that found the handle running returns, the running flag
\* is false.
C2_StopLeavesNotRunning ==
    \A c \in StopCalls :
        (Returned(c) /\ calls[c].saw = "running") => ~calls[c].runAtRet

C4_ProbeBeforeCommit ==
    /\ \A c \in StartCalls :
          /\ (calls[c].pc = "start_set" \/ calls[c].wrote \/ calls[c].spawned # 0)
                => (calls[c].probed /\ calls[c].portFree)
          /\ (calls[c].probed /\ ~calls[c].portFree)
                => /\ Returned(c) /\ calls[c].ret = ErrAddrInUse
                   /\ ~calls[c].wrote /\ calls[c].spawned = 0
          /\ (calls[c].saw = "stopped" /\ Returned(c)) => calls[c].probed
    /\ loops # <<>> => netListens > 0
    /\ running => loops # <<>>

C4_Witness ==
    /\ \E c \in StartCalls :
          /\ Returned(c) /\ calls[c].probed /\ ~calls[c].portFree
          /\ calls[c].ret = ErrAddrInUse
    /\ \E c \in StartCalls : Returned(c) /\ calls[c].spawned # 0

\* The accept loop l has come back from a listen that failed, and has not yet
\* handled the error.
ListenFailurePending(l) ==
    l \in LoopIds /\ loops[l].pc = "returned" /\ loops[l].err = ErrAddrInUse

\* C5: when the probe succeeded but the accept loop's listen fails, the Start
\* that spawned the loop has returned nil, no Start returns the listen error
\* (only an own failed probe returns a bind error), the error reaches the
\* log, and the running flag becomes false again.
C5_LateListenError ==
    /\ [](\A l \in LoopIds :
            loops[l].err = ErrAddrInUse =>
                /\ \A c \in StartCalls :
                      calls[c].spawned = l =>
                          /\ calls[c].ret = Nil
                          /\ calls[c].probed /\ calls[c].portFree
                /\ \A c \in StartCalls :
                      calls[c].ret = ErrAddrInUse =>
                          (calls[c].probed /\ ~calls[c].portFree)
                /\ loops[l].pc = "done" => l \in errLog)
    /\ \A l \in 1..MaxCalls :
          ListenFailurePending(l) ~> (~running /\ l \in errLog)

C5_Witness ==
    \E l \in LoopIds :
        /\ loops[l].pc = "done" /\ loops[l].err = ErrAddrInUse
        /\ l \in errLog
        /\ ~running
        /\ \E c \in StartCalls : calls[c].spawned = l /\ calls[c].ret = Nil

\* The TLS option of an option list, if it has one.
HasTLS(opts) == \E i \in 1..Len(opts) : opts[i].opt = "TLS"
TLSOf(opts) == opts[CHOOSE i \in 1..Len(opts) : opts[i].opt = "TLS"]

\* The TLS material NewServer was given is unusable.
BadTLS(opts) ==
    /\ HasTLS(opts)
    /\ \/ TLSOf(opts).certFile = ""
       \/ TLSOf(opts).keyFile = ""
       \/ LoadX509KeyPair(TLSOf(opts).certFile, TLSOf(opts).keyFile) # Nil

\* C6: construction with TLS enabled and a missing certificate path, a
\* missing key path or a pair that does not load returns an error and no
\* handle; construction opens no socket, whether it fails or succeeds; a
\* handle that failed construction is never started.
C6_ConstructionFailsFast ==
    /\ (constructed /\ BadTLS(newArgs.opts)) =>
          /\ newErr # Nil /\ srv = NoServer
          /\ netListens = 0 /\ bound = 0 /\ loops = <<>> /\ ~running
          /\ \A c \in Callers : calls[c].op = "none"
    /\ (constructed /\ ~BadTLS(newArgs.opts)) => (newErr = Nil /\ srv # NoServer)
    /\ callsMade = 0 => (netListens = 0 /\ bound = 0 /\ loops = <<>>)

C6_Witness ==
    /\ constructed
    /\ HasTLS(newArgs.opts)
    /\ TLSOf(newArgs.opts).certFile = "cert.pem"
    /\ TLSOf(newArgs.opts).keyFile = "missing.key"
    /\ newErr = ErrKeyPair
    /\ srv = NoServer

\* C7: an unset address defaults to :8080 without TLS and to :8443 with the
\* TLS option; a given address is kept.
C7_DefaultAddrPerScheme ==
    (constructed /\ srv # NoServer) =>
        srv.Addr = IF newArgs.addr # "" THEN newArgs.addr
                   ELSE IF HasTLS(newArgs.opts) THEN httpDefaultTlsAddr
                   ELSE httpDefaultAddr

\* An accept loop is about to write Server.running while a caller of Start
\* or Stop is about to read or write it, with nothing ordering the two.
DataRace ==
    \E l \in LoopIds, c \in Callers :
        /\ loops[l].pc = "returned"
        /\ calls[c].pc \in {"start_check", "stop_check", "start_set"}

\* C8: no accept loop writes the running flag concurrently with an
\* unsynchronized access to it by Start or Stop.
C8_RunningFlagSynchronized == ~DataRace

\* A request has been served.
Served == trace # <<>>

DeclaredJson == Get(request.header, "Content-Type") = JsonContentType
DeclaredForm == Get(request.header, "Content-Type") = FormContentType

\* The response is the one http.Error writes for err: one status write, 400,
\* and the error's text as the body.
IsBadRequest(err) ==
    /\ response.status = StatusBadRequest
    /\ response.statusWrites = 1
    /\ response.body = <<err, "\n">>

\* C9 (as claimed): a JSON request whose body fails to decode, unless the
\* body is entirely empty, gets a 400 with the error text and the handler is
\* not invoked.
C9_MalformedJsonUnlessEmptyIs400 ==
    (Served /\ DeclaredJson /\ request.body # <<>>
        /\ Decode(request.body, request.readErr).err # Nil)
    => /\ IsBadRequest(Decode(request.body, request.readErr).err)
       /\ invocations = 0

\* C9 (amended): a JSON request whose body fails to decode with anything but
\* io.EOF, which the decoder gives for a body that is empty or is whitespace
\* only, gets a 400 with the error text and the handler is not invoked.
C9_MalformedJsonIs400 ==
    (Served /\ DeclaredJson
        /\ Decode(request.body, request.readErr).err \notin {Nil, EOF})
    => /\ IsBadRequest(Decode(request.body, request.readErr).err)
       /\ invocations = 0
       /\ trace = <<"assemble", "decode", "http.Error">>

C9_Witness ==
    /\ Served /\ DeclaredJson
    /\ request.body = <<"[", "1">>
    /\ IsBadRequest(ErrUnexpectedEOF)
    /\ invocations = 0

Replied == handlerReturn.err = Nil /\ handlerReturn.mapErr = Nil

\* C11: a JSON request whose body is read and is entirely empty decodes to
\* an absent content: the handler is invoked once, with a message whose
\* content is absent, and no 400 is sent for the body (a 400 can only be the
\* one for an error the handler itself returned).
C11_EmptyJsonBodyIsAbsentContent ==
    (Served /\ DeclaredJson /\ request.body = <<>> /\ ~request.readErr)
    => /\ invocations = 1
       /\ message.Content = Absent
       /\ ~IsBadRequest(EOF)
       /\ Replied => response.status = (IF handlerReturn.code = 0 THEN StatusOK
                                        ELSE handlerReturn.code)

C11_Witness ==
    /\ Served /\ DeclaredJson /\ request.body = <<>> /\ ~request.readErr
    /\ invocations = 1
    /\ message.Content = Absent
    /\ Replied
    /\ response.status = StatusOK

\* C12: when the reply carries headers, every one of them is in the header
\* set of the outbound response, and the header set of the inbound request is
\* as it arrived.
C12_ReplyHeadersOnResponse ==
    (Served /\ invocations = 1 /\ Replied
        /\ DOMAIN handlerReturn.headers # {})
    => /\ \A k \in DOMAIN handlerReturn.headers :
            /\ k \in DOMAIN response.header
            /\ response.header[k] = handlerReturn.headers[k]
       /\ reqHeader = request.header

\* The status a reply is written with: its code, 200 for a code of 0.
ReplyStatus == IF handlerReturn.code = 0 THEN StatusOK ELSE handlerReturn.code

\* The handler replied with data of the given kind.
RepliedWith(kind) ==
    Served /\ invocations = 1 /\ Replied /\ handlerReturn.data.kind = kind

\* The string data among ReplyData that are JSON texts.
JsonStrings == {<<"[", "1", "]">>, <<" ", "1">>}

\* C13: for string data the response has the media type application/json
\* when the string is a JSON text and text/plain otherwise (both with the
\* parameter charset=UTF-8), the status is the reply's code, 200 for 0,
\* written once, and the body is the string itself, byte for byte.
C13_StringDataVerbatim ==
    RepliedWith("string")
    => /\ response.header["Content-Type"] =
            (IF handlerReturn.data.val \in JsonStrings
             THEN "application/json; charset=UTF-8"
             ELSE "text/plain; charset=UTF-8")
       /\ response.status = ReplyStatus
       /\ response.statusWrites = 1
       /\ response.body = handlerReturn.data.val

C13_Witness ==
    /\ RepliedWith("string")
    /\ handlerReturn.data.val = <<" ", "1">>
    /\ handlerReturn.code = 0
    /\ response.header["Content-Type"] = "application/json; charset=UTF-8"
    /\ response.status = StatusOK
    /\ response.body = <<" ", "1">>

\* The last step the handler took.
LastStep == trace[Len(trace)]

\* C14: on every path the status is written at most once; a failure before
\* the reply is translated (the body not read, the form or the JSON not
\* parsed, an error of the handler, results that do not map to a reply) gives
\* one 400 with the error's text and nothing after it; and a 5xx status is
\* only ever the code of the handler's own reply.
C14_OneStatusAndFailuresAre400 ==
    Served
    => /\ response.statusWrites <= 1
       /\ request.readErr => IsBadRequest(ErrRead) /\ invocations = 0
       /\ DecodeBody(request).err # Nil
            => /\ IsBadRequest(DecodeBody(request).err)
               /\ invocations = 0
               /\ LastStep = "http.Error"
       /\ (invocations = 1 /\ handlerReturn.err # Nil)
            => IsBadRequest(handlerReturn.err) /\ LastStep = "http.Error"
       /\ (invocations = 1 /\ handlerReturn.err = Nil
                /\ handlerReturn.mapErr # Nil)
            => IsBadRequest(handlerReturn.mapErr) /\ LastStep = "http.Error"
       /\ response.status >= 500
            => /\ invocations = 1 /\ Replied
               /\ response.status = handlerReturn.code

C14_Witness ==
    /\ Served
    /\ invocations = 1
    /\ handlerReturn.mapErr = ErrMapping
    /\ IsBadRequest(ErrMapping)
    /\ LastStep = "http.Error"

\* C15: for a reply without data only the status is written: the reply's
\* code, 200 for a code of 0, once, with no body and no Content-Type.
C15_AbsentDataIsStatusOnly ==
    RepliedWith("absent")
    => /\ response.status = ReplyStatus
       /\ response.statusWrites = 1
       /\ response.body = <<>>
       /\ "Content-Type" \notin DOMAIN response.header

C15_Witness ==
    /\ RepliedWith("absent")
    /\ handlerReturn.code = 0
    /\ response.status = StatusOK
    /\ response.body = <<>>
    /\ DOMAIN response.header = {}

\* joined is the values of one name in their order with commas between them,
\* for the one or two values a name of Requests has.
CommaJoined(values, joined) ==
    /\ Len(values) \in {1, 2}
    /\ Len(values) = 1 => joined = values[1]
    /\ Len(values) = 2 => joined = values[1] \o "," \o values[2]

\* C16: the message has every header name and every query key of the
\* request, none dropped and none added, each with its values joined by
\* commas in their order; a single value is kept as it is.
C16_MultiValuesCommaJoined ==
    Served
    => /\ DOMAIN message.Headers = DOMAIN request.header
       /\ \A k \in DOMAIN request.header :
            CommaJoined(request.header[k], message.Headers[k])
       /\ DOMAIN message.QueryParams = DOMAIN request.query
       /\ \A k \in DOMAIN request.query :
            CommaJoined(request.query[k], message.QueryParams[k])

C16_Witness ==
    /\ Served
    /\ "X-Foo" \in DOMAIN request.header
    /\ request.header["X-Foo"] = <<"1", "2">>
    /\ request.query = ("q" :> <<"1", "2">>)
    /\ message.Headers["X-Foo"] = "1,2"
    /\ message.Headers["Content-Type"] = JsonContentType
    /\ message.QueryParams = ("q" :> "1,2")

\* The form of the request, as url.ParseQuery reads its body.
Form == ParseQuery(request.body, EmptyMap, Nil)

\* C17: a form body that is read and parsed becomes a flat map with exactly
\* the keys of the form, each with the first of its values only: a=1&a=2
\* gives a -> "1", and a=2&a=1 gives a -> "2".
C17_FormKeepsFirstValue ==
    (Served /\ DeclaredForm /\ ~request.readErr /\ Form.err = Nil)
    => /\ invocations = 1
       /\ message.Content.kind = "form"
       /\ DOMAIN message.Content.val = DOMAIN Form.m
       /\ \A k \in DOMAIN Form.m : message.Content.val[k] = Form.m[k][1]
       /\ request.body = <<"a", "=", "1", "&", "a", "=", "2">>
            => message.Content.val = (<<"a">> :> <<"1">>)
       /\ request.body = <<"a", "=", "2", "&", "a", "=", "1">>
            => message.Content.val = (<<"a">> :> <<"2">>)

C17_Witness ==
    /\ Served /\ DeclaredForm
    /\ request.body = <<"a", "=", "1", "&", "a", "=", "2">>
    /\ invocations = 1
    /\ message.Content = [kind |-> "form", val |-> (<<"a">> :> <<"1">>)]

\* The handler took the step.
Took(step) == \E i \in 1..Len(trace) : trace[i] = step

\* The handler took step a before step b, where it took both.
Precedes(a, b) ==
    \A i, j \in 1..Len(trace) : (trace[i] = a /\ trace[j] = b) => i < j

C19_ServingImpliesRunning == bound # 0 => running

\* Accept loop l was started after Shutdown had been called on the server.
StartedClosed(l) == l \in LoopIds /\ loops[l].closed

\* C20: a handle serves for one start/stop cycle. A Start after the shutdown
\* passes the probe when no other process holds the port, and returns nil;
\* the accept loop it starts never binds and never serves: it returns with
\* ErrServerClosed, nothing is logged for it, and it leaves the running flag
\* false.
C20_OneCycleOnly ==
    /\ [](\A l \in LoopIds :
            loops[l].closed =>
                /\ loops[l].pc \in {"listen", "returned", "done"}
                /\ loops[l].err \in {"none", ErrServerClosed}
                /\ loops[l].pc # "listen" => loops[l].err = ErrServerClosed
                /\ bound = 0
                /\ l \notin errLog
                /\ \A c \in StartCalls :
                      calls[c].spawned = l =>
                          /\ calls[c].ret = Nil
                          /\ calls[c].saw = "stopped"
                          /\ calls[c].probed /\ calls[c].portFree)
    /\ [](\A c \in StartCalls :
            (inShutdown /\ calls[c].pc = "start_probe" /\ ~portTaken)
                => PortFree)
    /\ \A l \in 1..MaxCalls :
          (StartedClosed(l) /\ loops[l].pc # "done")
              ~> (StartedClosed(l) /\ loops[l].pc = "done" /\ ~running)

C20_Witness ==
    /\ Len(loops) = 2
    /\ ~loops[1].closed /\ loops[1].pc = "done"
    /\ loops[1].err = ErrServerClosed
    /\ \E c \in StopCalls : calls[c].shut /\ calls[c].ret = Nil
    /\ loops[2].closed /\ loops[2].pc = "done"
    /\ loops[2].err = ErrServerClosed
    /\ \E c \in StartCalls : calls[c].spawned = 2 /\ calls[c].ret = Nil
    /\ netListens = 3
    /\ errLog = {}
    /\ ~running

====
